---- MODULE Spec2Model ----
(***************************************************************************)
(* Model of backend/main.py, endpoint send_message_stream: the event       *)
(* generator that drives stage 1 -> stage 2 -> stage 3 of a council run,   *)
(* the disconnect monitor (check_disconnect) that sets the cancellation    *)
(* event, the stage-1 query_model tasks, the title task and the storage    *)
(* calls the generator makes.                                              *)
(*                                                                         *)
(* One step of the generator is the code between two suspension points     *)
(* (an await that may block, or a yield): asyncio runs everything between  *)
(* them without interleaving.                                              *)
(***************************************************************************)
EXTENDS Integers, Sequences, FiniteSets, TLC

\* Largest number of selected agents explored.
MaxAgents == 3

\* agents_to_use stays None when selected_agents is missing or is not JSON
\* (main.py:186-192).  Agent ids are >= 1, so <<0>> is no agent list.
NoneAgents == <<0>>

\* task_to_model.get(key, None) returns None for a missing key.
NoModel == 0

\* Outcomes of one query_model(model, messages) task: a response dict, None
\* (the invocation failed and reported it by returning nothing), or an
\* exception raised out of the task.
TaskOutcomes == {"ok", "none", "raise"}

VARIABLES
    pc,               \* position of event_generator
    events,           \* the SSE events yielded so far, in order
    cancelled,        \* asyncio.Event `cancelled` (is_set)
    flag_ev,          \* history: Len(events) when cancelled.set() ran, -1 before
    set_calls,        \* history: number of cancelled.set() calls made
    monitor,          \* state of the disconnect_checker task
    disconnected,     \* what request.is_disconnected() reports
    agents_to_use,    \* parsed selection, or NoneAgents
    is_first_message, \* len(conversation["messages"]) == 0 at request time
    title_task,       \* "none" | "running" | "ok" | "raise"
    tasks,            \* list of stage-1 task ids created (line 316-320)
    doneq,            \* finished stage-1 tasks in completion order
    cancel_called,    \* stage-1 tasks on which task.cancel() was called
    iter,             \* items of as_completed(tasks) consumed so far
    stage1_results,
    completed_agents,
    completed_count,
    user_msgs,        \* user messages this run has written to storage
    title_saved,      \* update_conversation_title performed by this run
    asst_msgs,        \* assistant messages this run has written to storage
    calls             \* log of the stage calls made, with their stage-1 input

vars == <<pc, events, cancelled, flag_ev, set_calls, monitor, disconnected, agents_to_use,
          is_first_message, title_task, tasks, doneq, cancel_called,
          iter, stage1_results, completed_agents, completed_count, user_msgs,
          title_saved, asst_msgs, calls>>

envVars == <<cancelled, flag_ev, set_calls, monitor, disconnected>>
inputVars == <<agents_to_use, is_first_message>>
taskVars == <<tasks, doneq, cancel_called>>
loopVars == <<iter, stage1_results, completed_agents, completed_count>>
storeVars == <<user_msgs, title_saved, asst_msgs>>

----------------------------------------------------------------------------
\* json.loads(selected_agents): a list of agent identifiers, each naming one
\* agent of the run (0 to MaxAgents of them).
Selections == {[i \in 1..k |-> i] : k \in 0..MaxAgents}

RECURSIVE SeqToSet(_)
SeqToSet(s) == IF s = <<>> THEN {} ELSE {Head(s)} \cup SeqToSet(Tail(s))

\* One SSE event: json.dumps({'type': ..., ...}).  Fields an event type does
\* not carry are left at their zero value.
Event(type) ==
    [type |-> type, model |-> NoModel, completed |-> 0, total |-> 0,
     completed_agents |-> <<>>, data |-> <<>>]

Stage1StartEvent(total) == [Event("stage1_start") EXCEPT !.total = total]

Stage1ProgressEvent(model, completed, total, agents) ==
    [Event("stage1_progress") EXCEPT !.model = model, !.completed = completed,
                                     !.total = total,
                                     !.completed_agents = agents]

Stage1CompleteEvent(results) == [Event("stage1_complete") EXCEPT !.data = results]

Emit(e) == events' = Append(events, e)

\* Python objects compared by identity: the Task objects of `tasks`, and the
\* awaitables that iterating asyncio.as_completed(tasks) hands out.
TaskObj(i) == <<"Task", i>>
CoroObj(k) == <<"coroutine", k>>

\* for done_task in asyncio.as_completed(tasks): a plain `for` over
\* as_completed yields a new coroutine per item; awaiting the k-th one gives
\* the result of the k-th task to finish.  It never yields a member of `tasks`.
AsCompletedItem(k) == CoroObj(k)

\* task_to_model[task] = model (line 319), keyed by the Task objects.
TaskToModel ==
    [t \in {TaskObj(i) : i \in SeqToSet(tasks)} |-> agents_to_use[t[2]]]

\* task_to_model.get(done_task, None)
TaskToModelGet(key) ==
    IF key \in DOMAIN TaskToModel THEN TaskToModel[key] ELSE NoModel

DoneTasks == {doneq[i].task : i \in 1..Len(doneq)}

\* task.done(): finished, or already cancelled.
TaskDone(t) == t \in DoneTasks \/ t \in cancel_called

----------------------------------------------------------------------------
Init ==
    /\ pc = "start"
    /\ events = <<>>
    /\ cancelled = FALSE
    /\ flag_ev = -1
    /\ set_calls = 0
    /\ monitor = "running"
    /\ disconnected = FALSE
    /\ agents_to_use \in {NoneAgents} \cup Selections
    /\ is_first_message \in BOOLEAN
    /\ title_task = "none"
    /\ tasks = <<>>
    /\ doneq = <<>>
    /\ cancel_called = {}
    /\ iter = 0
    /\ stage1_results = <<>>
    /\ completed_agents = <<>>
    /\ completed_count = 0
    /\ user_msgs = 0
    /\ title_saved = FALSE
    /\ asst_msgs = 0
    /\ calls = <<>>

----------------------------------------------------------------------------
\* The disconnect monitor, check_disconnect (lines 218-227).

\* Variant: the `break` after cancelled.set() is missing, so the monitor keeps
\* probing and sets the event again (explored up to a second set).
CheckDisconnectNoBreak ==
    /\ monitor = "running"
    /\ disconnected
    /\ set_calls < 2
    /\ cancelled' = TRUE
    /\ flag_ev' = IF cancelled THEN flag_ev ELSE Len(events)
    /\ set_calls' = set_calls + 1
    /\ UNCHANGED <<pc, events, monitor, disconnected, inputVars, title_task,
                   taskVars, loopVars, storeVars, calls>>

\* One round of the loop that finds the client gone: the sleep returns,
\* request.is_disconnected() is true, cancelled.set(), break.  A round that
\* finds the client connected changes nothing and goes back to sleep.
CheckDisconnect ==
    /\ monitor = "running"
    /\ disconnected
    /\ cancelled' = TRUE
    /\ flag_ev' = IF cancelled THEN flag_ev ELSE Len(events)
    /\ set_calls' = set_calls + 1
    /\ monitor' = "exited"
    /\ UNCHANGED <<pc, events, disconnected, inputVars, title_task, taskVars,
                   loopVars, storeVars, calls>>

\* The client goes away; from then on request.is_disconnected() is true.
ClientDisconnect ==
    /\ ~disconnected
    /\ disconnected' = TRUE
    /\ UNCHANGED <<pc, events, cancelled, flag_ev, set_calls, monitor,
                   inputVars, title_task, taskVars, loopVars, storeVars, calls>>

----------------------------------------------------------------------------
\* The concurrent tasks the generator starts.

\* One query_model task finishes (line 318); a task that was cancelled
\* unwinds without a result.
QueryModelFinish ==
    \E i \in SeqToSet(tasks), o \in TaskOutcomes :
        /\ ~TaskDone(i)
        /\ doneq' = Append(doneq, [task |-> i, outcome |-> o])
        /\ UNCHANGED <<pc, events, envVars, inputVars, title_task, tasks,
                       cancel_called, loopVars, storeVars, calls>>

\* The generate_conversation_title task finishes (line 305).
GenerateTitleFinish ==
    \E o \in {"ok", "raise"} :
        /\ title_task = "running"
        /\ title_task' = o
        /\ UNCHANGED <<pc, events, envVars, inputVars, taskVars, loopVars,
                       storeVars, calls>>

----------------------------------------------------------------------------
\* event_generator (lines 232-403).

\* except Exception as e: yield error (lines 394-396), then the finally block.
ExceptException ==
    /\ Emit(Event("error"))
    /\ pc' = "finally"

\* except asyncio.CancelledError: yield cancelled (lines 392-393).
ExceptCancelledError ==
    /\ Emit(Event("cancelled"))
    /\ pc' = "finally"

\* Variant: the title task is started whether or not this is the first
\* message of the conversation.
AddUserMessageAlwaysTitle ==
    /\ pc = "start"
    /\ \E fault \in BOOLEAN :
         IF fault
           THEN /\ ExceptException
                /\ UNCHANGED <<user_msgs, title_task>>
           ELSE /\ user_msgs' = user_msgs + 1
                /\ title_task' = "running"
                /\ pc' = "stage1_start"
                /\ UNCHANGED events
    /\ UNCHANGED <<envVars, inputVars, taskVars, loopVars, title_saved,
                   asst_msgs, calls>>

\* storage.add_user_message, then the title task (lines 300-305).
AddUserMessage ==
    /\ pc = "start"
    /\ \E fault \in BOOLEAN :
         IF fault
           THEN /\ ExceptException
                /\ UNCHANGED <<user_msgs, title_task>>
           ELSE /\ user_msgs' = user_msgs + 1
                /\ title_task' = IF is_first_message THEN "running" ELSE "none"
                /\ pc' = "stage1_start"
                /\ UNCHANGED events
    /\ UNCHANGED <<envVars, inputVars, taskVars, loopVars, title_saved,
                   asst_msgs, calls>>

\* yield stage1_start with total = len(agents_to_use) (line 308);
\* len(None) raises TypeError.
Stage1Start ==
    /\ pc = "stage1_start"
    /\ IF agents_to_use = NoneAgents
         THEN ExceptException
         ELSE /\ Emit(Stage1StartEvent(Len(agents_to_use)))
              /\ pc' = "create_tasks"
    /\ UNCHANGED <<envVars, inputVars, title_task, taskVars, loopVars,
                   storeVars, calls>>

\* One task per selected agent (lines 313-325).
CreateTasks ==
    /\ pc = "create_tasks"
    /\ tasks' = [i \in 1..Len(agents_to_use) |-> i]
    /\ iter' = 0
    /\ stage1_results' = <<>>
    /\ completed_agents' = <<>>
    /\ completed_count' = 0
    /\ pc' = "stage1_loop"
    /\ UNCHANGED <<events, envVars, inputVars, title_task, doneq,
                   cancel_called, storeVars, calls>>

\* Variant: the loop stops after the first completion (as a wait for the
\* first finished task would).
LoopExhaustedFirst == iter >= 1 \/ iter = Len(tasks)

\* as_completed hands out exactly len(tasks) items.
LoopExhausted == iter = Len(tasks)

\* Variant: the `return` after the cancellation notice in the loop is
\* missing, so the loop goes on to await the next completion.
Stage1LoopTopNoReturn ==
    /\ pc = "stage1_loop"
    /\ IF LoopExhausted
         THEN /\ pc' = "stage1_post"
              /\ UNCHANGED <<events, cancel_called>>
         ELSE IF cancelled
           THEN /\ cancel_called' =
                     cancel_called \cup {t \in SeqToSet(tasks) : ~TaskDone(t)}
                /\ Emit(Event("cancelled"))
                /\ pc' = "stage1_await"
           ELSE /\ pc' = "stage1_await"
                /\ UNCHANGED <<events, cancel_called>>
    /\ UNCHANGED <<envVars, inputVars, title_task, tasks, doneq, loopVars,
                   storeVars, calls>>

\* Top of the stage-1 loop (lines 328-336): next item of as_completed, then
\* the cancellation check.
Stage1LoopTop ==
    /\ pc = "stage1_loop"
    /\ IF LoopExhausted
         THEN /\ pc' = "stage1_post"
              /\ UNCHANGED <<events, cancel_called>>
         ELSE IF cancelled
           THEN /\ cancel_called' =
                     cancel_called \cup {t \in SeqToSet(tasks) : ~TaskDone(t)}
                /\ Emit(Event("cancelled"))
                /\ pc' = "finally"
           ELSE /\ pc' = "stage1_await"
                /\ UNCHANGED <<events, cancel_called>>
    /\ UNCHANGED <<envVars, inputVars, title_task, tasks, doneq, loopVars,
                   storeVars, calls>>

\* response = await done_task, then the progress bookkeeping (lines 338-355).
\* The awaitable resolves to the next finished task; an exception of that
\* task is re-raised by the await and only CancelledError is caught there.
Stage1Await ==
    /\ pc = "stage1_await"
    /\ iter < Len(doneq)
    /\ LET done_task == AsCompletedItem(iter + 1)
           finished == doneq[iter + 1]
           model == TaskToModelGet(done_task)
           total_count == Len(agents_to_use)
       IN IF finished.outcome = "raise"
            THEN /\ ExceptException
                 /\ UNCHANGED loopVars
            ELSE /\ iter' = iter + 1
                 /\ pc' = "stage1_loop"
                 /\ IF model # NoModel /\ model \notin SeqToSet(completed_agents)
                      THEN /\ completed_agents' = Append(completed_agents, model)
                           /\ completed_count' = completed_count + 1
                           /\ Emit(Stage1ProgressEvent(model, completed_count + 1,
                                       total_count,
                                       Append(completed_agents, model)))
                           /\ stage1_results' =
                                IF finished.outcome = "ok"
                                  THEN Append(stage1_results, model)
                                  ELSE stage1_results
                      ELSE UNCHANGED <<completed_agents, completed_count,
                                       events, stage1_results>>
    /\ UNCHANGED <<envVars, inputVars, title_task, taskVars, storeVars, calls>>

\* The task running the generator is cancelled while it waits in
\* `await done_task`: except asyncio.CancelledError (lines 340-342).
Stage1CancelledError ==
    /\ pc = "stage1_await"
    /\ Emit(Event("cancelled"))
    /\ pc' = "finally"
    /\ UNCHANGED <<envVars, inputVars, title_task, taskVars, loopVars,
                   storeVars, calls>>

\* Variant: the cancellation check after the loop is missing.
Stage1PostNoCheck ==
    /\ pc = "stage1_post"
    /\ Emit(Stage1CompleteEvent(stage1_results))
    /\ pc' = "stage2_start"
    /\ UNCHANGED <<envVars, inputVars, title_task, taskVars, loopVars,
                   storeVars, calls>>

\* Variant: the `return` after the cancellation notice is missing, so the
\* generator falls through to stage1_complete.
Stage1PostCheckNoReturn ==
    /\ pc = "stage1_post"
    /\ IF cancelled
         THEN events' = Append(Append(events, Event("cancelled")),
                               Stage1CompleteEvent(stage1_results))
         ELSE Emit(Stage1CompleteEvent(stage1_results))
    /\ pc' = "stage2_start"
    /\ UNCHANGED <<envVars, inputVars, title_task, taskVars, loopVars,
                   storeVars, calls>>

\* Check after the loop, then stage1_complete (lines 357-362).
Stage1PostCheck ==
    /\ pc = "stage1_post"
    /\ IF cancelled
         THEN /\ Emit(Event("cancelled"))
              /\ pc' = "finally"
         ELSE /\ Emit(Stage1CompleteEvent(stage1_results))
              /\ pc' = "stage2_start"
    /\ UNCHANGED <<envVars, inputVars, title_task, taskVars, loopVars,
                   storeVars, calls>>

\* yield stage2_start (line 365).
Stage2Start ==
    /\ pc = "stage2_start"
    /\ Emit(Event("stage2_start"))
    /\ pc' = "stage2_call"
    /\ UNCHANGED <<envVars, inputVars, title_task, taskVars, loopVars,
                   storeVars, calls>>

\* stage2_collect_rankings(enhanced_query, stage1_results, agents_to_use) is
\* called (line 366).
Stage2Call ==
    /\ pc = "stage2_call"
    /\ calls' = Append(calls, [fn |-> "stage2_collect_rankings",
                               stage1 |-> stage1_results])
    /\ pc' = "stage2_await"
    /\ UNCHANGED <<events, envVars, inputVars, title_task, taskVars, loopVars,
                   storeVars>>

\* The rankings come back, calculate_aggregate_rankings runs, and
\* stage2_complete is sent (lines 366-368); either call may raise.
Stage2Return ==
    /\ pc = "stage2_await"
    /\ \E fault \in BOOLEAN :
         IF fault
           THEN ExceptException
           ELSE /\ Emit(Event("stage2_complete"))
                /\ pc' = "stage3_start"
    /\ UNCHANGED <<envVars, inputVars, title_task, taskVars, loopVars,
                   storeVars, calls>>

\* Variant: the stage-3 announcement repeats the stage-2 one.
Stage3StartDup ==
    /\ pc = "stage3_start"
    /\ Emit(Event("stage2_start"))
    /\ pc' = "stage3_call"
    /\ UNCHANGED <<envVars, inputVars, title_task, taskVars, loopVars,
                   storeVars, calls>>

\* yield stage3_start (line 371).
Stage3Start ==
    /\ pc = "stage3_start"
    /\ Emit(Event("stage3_start"))
    /\ pc' = "stage3_call"
    /\ UNCHANGED <<envVars, inputVars, title_task, taskVars, loopVars,
                   storeVars, calls>>

\* stage3_synthesize_final(...) is called (line 372).
Stage3Call ==
    /\ pc = "stage3_call"
    /\ calls' = Append(calls, [fn |-> "stage3_synthesize_final",
                               stage1 |-> stage1_results])
    /\ pc' = "stage3_await"
    /\ UNCHANGED <<events, envVars, inputVars, title_task, taskVars, loopVars,
                   storeVars>>

\* The chairman's answer comes back and stage3_complete is sent
\* (lines 372-373).
Stage3Return ==
    /\ pc = "stage3_await"
    /\ \E fault \in BOOLEAN :
         IF fault
           THEN ExceptException
           ELSE /\ Emit(Event("stage3_complete"))
                /\ pc' = "title"
    /\ UNCHANGED <<envVars, inputVars, title_task, taskVars, loopVars,
                   storeVars, calls>>

\* if title_task: title = await title_task; update_conversation_title;
\* yield title_complete (lines 375-379).
AwaitTitle ==
    /\ pc = "title"
    /\ title_task # "running"
    /\ IF title_task = "none"
         THEN /\ pc' = "persist"
              /\ UNCHANGED <<events, title_saved>>
         ELSE \E fault \in BOOLEAN :
                IF title_task = "raise" \/ fault
                  THEN /\ ExceptException
                       /\ UNCHANGED title_saved
                  ELSE /\ title_saved' = TRUE
                       /\ Emit(Event("title_complete"))
                       /\ pc' = "persist"
    /\ UNCHANGED <<envVars, inputVars, title_task, taskVars, loopVars,
                   user_msgs, asst_msgs, calls>>

\* storage.add_assistant_message(...), then yield complete (lines 381-390).
Persist ==
    /\ pc = "persist"
    /\ \E fault \in BOOLEAN :
         IF fault
           THEN /\ ExceptException
                /\ UNCHANGED <<asst_msgs, calls>>
           ELSE /\ asst_msgs' = asst_msgs + 1
                /\ calls' = Append(calls, [fn |-> "add_assistant_message",
                                           stage1 |-> stage1_results])
                /\ Emit(Event("complete"))
                /\ pc' = "finally"
    /\ UNCHANGED <<envVars, inputVars, title_task, taskVars, loopVars,
                   user_msgs, title_saved>>

\* The task running the generator is cancelled while it waits in one of the
\* awaits outside the stage-1 loop (lines 366, 372, 377): lines 392-393.
OuterCancelledError ==
    /\ \/ pc \in {"stage2_await", "stage3_await"}
       \/ pc = "title" /\ title_task = "running"
    /\ ExceptCancelledError
    /\ UNCHANGED <<envVars, inputVars, title_task, taskVars, loopVars,
                   storeVars, calls>>

\* Variant: the finally block does not stop the disconnect checker.
FinallyNoCancel ==
    /\ pc = "finally"
    /\ pc' = "done"
    /\ UNCHANGED <<events, envVars, inputVars, title_task, taskVars, loopVars,
                   storeVars, calls>>

\* finally: disconnect_checker.cancel(); await disconnect_checker
\* (lines 397-403).
Finally ==
    /\ pc = "finally"
    /\ monitor' = IF monitor = "running" THEN "cancelled" ELSE monitor
    /\ pc' = "done"
    /\ UNCHANGED <<events, cancelled, flag_ev, set_calls, disconnected,
                   inputVars, title_task, taskVars, loopVars, storeVars, calls>>

Next ==
    \/ CheckDisconnect
    \/ ClientDisconnect
    \/ QueryModelFinish
    \/ GenerateTitleFinish
    \/ AddUserMessage
    \/ Stage1Start
    \/ CreateTasks
    \/ Stage1LoopTop
    \/ Stage1Await
    \/ Stage1CancelledError
    \/ Stage1PostCheck
    \/ Stage2Start
    \/ Stage2Call
    \/ Stage2Return
    \/ Stage3Start
    \/ Stage3Call
    \/ Stage3Return
    \/ AwaitTitle
    \/ Persist
    \/ OuterCancelledError
    \/ Finally

Spec == Init /\ [][Next]_vars

\* Scheduling: the event loop keeps running every ready task, the consumer
\* keeps iterating the generator, and every external call (query_model,
\* generate_conversation_title, the stage calls, the storage calls, the
\* disconnect probe) eventually returns or fails.  The client's disconnect
\* and the cancellation of the generator's own task are not forced.
Fairness ==
    /\ WF_vars(CheckDisconnect)
    /\ WF_vars(QueryModelFinish)
    /\ WF_vars(GenerateTitleFinish)
    /\ WF_vars(AddUserMessage)
    /\ WF_vars(Stage1Start)
    /\ WF_vars(CreateTasks)
    /\ WF_vars(Stage1LoopTop)
    /\ WF_vars(Stage1Await)
    /\ WF_vars(Stage1PostCheck)
    /\ WF_vars(Stage2Start)
    /\ WF_vars(Stage2Call)
    /\ WF_vars(Stage2Return)
    /\ WF_vars(Stage3Start)
    /\ WF_vars(Stage3Call)
    /\ WF_vars(Stage3Return)
    /\ WF_vars(AwaitTitle)
    /\ WF_vars(Persist)
    /\ WF_vars(Finally)

FairSpec == Spec /\ Fairness

----------------------------------------------------------------------------
\* Properties of the event stream.

HasEvent(t) == \E i \in 1..Len(events) : events[i].type = t

CountEvents(t) == Cardinality({i \in 1..Len(events) : events[i].type = t})

LastEventIs(t) == Len(events) > 0 /\ events[Len(events)].type = t

TerminalTypes == {"complete", "cancelled", "error"}

TerminalIdx == {i \in 1..Len(events) : events[i].type \in TerminalTypes}

IsStageEvent(e) == e.type \notin {"cancelled", "error"}

\* The events of the success sequence, without the cancelled / error notice.
StageEvents == SelectSeq(events, IsStageEvent)

\* b may directly follow a in stage1_start, stage1_progress*, stage1_complete,
\* stage2_start, stage2_complete, stage3_start, stage3_complete,
\* title_complete?, complete.
Follows ==
    {<<"stage1_start", "stage1_progress">>, <<"stage1_start", "stage1_complete">>,
     <<"stage1_progress", "stage1_progress">>,
     <<"stage1_progress", "stage1_complete">>,
     <<"stage1_complete", "stage2_start">>, <<"stage2_start", "stage2_complete">>,
     <<"stage2_complete", "stage3_start">>, <<"stage3_start", "stage3_complete">>,
     <<"stage3_complete", "title_complete">>, <<"stage3_complete", "complete">>,
     <<"title_complete", "complete">>}

\* C1: the events of a run other than cancelled/error are a prefix of
\* stage1_start, stage1_progress*, stage1_complete, stage2_start,
\* stage2_complete, stage3_start, stage3_complete, title_complete?, complete;
\* so no event of a later stage precedes one of an earlier stage and every
\* event but stage1_progress occurs at most once.
C1_EventOrder ==
    /\ Len(StageEvents) > 0 => StageEvents[1].type = "stage1_start"
    /\ \A i \in 1..(Len(StageEvents) - 1) :
         <<StageEvents[i].type, StageEvents[i + 1].type>> \in Follows

\* A run over at least two agents that sent the whole sequence, title included.
C1_Witness ==
    /\ pc = "done"
    /\ Len(tasks) >= 2
    /\ HasEvent("title_complete")
    /\ LastEventIs("complete")

\* C2: at most one terminal event is ever emitted and nothing follows it; a
\* finished run has exactly one, and `complete` comes only after the whole
\* success sequence.
C2_OneTerminalEvent ==
    /\ Cardinality(TerminalIdx) <= 1
    /\ \A i \in TerminalIdx : i = Len(events)
    /\ pc \in {"finally", "done"} => Cardinality(TerminalIdx) = 1
    /\ HasEvent("complete") =>
         \A t \in {"stage1_start", "stage1_complete", "stage2_start",
                   "stage2_complete", "stage3_start", "stage3_complete"} :
            HasEvent(t)

\* A finished run that was cancelled by the check after the stage-1 loop.
C2_Witness ==
    /\ pc = "done"
    /\ Len(tasks) >= 1
    /\ iter = Len(tasks)
    /\ LastEventIs("cancelled")

\* C3: if the monitor sets the flag when stage1_complete is the last event
\* sent (stage2_start not yet sent), no stage2_start or later event is sent,
\* no assistant message is stored, and the run ends with cancelled.
C3_CancelBeforeStage2 ==
    (flag_ev >= 1 /\ events[flag_ev].type = "stage1_complete") =>
        /\ \A i \in (flag_ev + 1)..Len(events) : events[i].type = "cancelled"
        /\ asst_msgs = 0
        /\ pc = "done" => LastEventIs("cancelled")

\* C4: if the monitor sets the flag after stage2_start was sent and before
\* the assistant message is stored, complete is never sent, neither the
\* title nor the assistant message is stored afterwards, and the run (unless
\* a fault ends it first) ends with cancelled.
C4_CancelInLaterStages ==
    (/\ flag_ev >= 1
     /\ \E k \in 1..flag_ev : events[k].type = "stage2_start"
     /\ \A k \in 1..flag_ev : events[k].type \notin TerminalTypes) =>
        /\ ~HasEvent("complete")
        /\ asst_msgs = 0
        /\ \A i \in (flag_ev + 1)..Len(events) : events[i].type # "title_complete"
        /\ (pc = "done" /\ ~HasEvent("error")) => LastEventIs("cancelled")

\* Number of stage-1 invocations that returned a response.
Responded == Cardinality({i \in 1..Len(doneq) : doneq[i].outcome = "ok"})

\* C5: in a run over a non-empty selection that got through stage 1, the
\* number of stage1_progress events, and the number of results carried by
\* stage1_complete, equal the number of agents that returned a response.
C5_ProgressPerResponse ==
    (Len(tasks) >= 1 /\ HasEvent("stage1_complete")) =>
        /\ CountEvents("stage1_progress") = Responded
        /\ \A i \in 1..Len(events) :
             events[i].type = "stage1_complete" => Len(events[i].data) = Responded

\* C6: a failed stage-1 invocation never produces an error event (no error
\* event comes straight after stage1_start or a stage1_progress), and a run
\* that started stage 1 and was not cancelled reaches stage1_complete.
C6_AgentFailureAbsorbed ==
    /\ \A i \in 2..Len(events) :
         events[i].type = "error" =>
            events[i - 1].type \notin {"stage1_start", "stage1_progress"}
    /\ (pc = "done" /\ HasEvent("stage1_start") /\ ~HasEvent("cancelled")) =>
            HasEvent("stage1_complete")

\* Every stage-1 invocation of a non-empty selection has finished, and none
\* returned a response.
AllAgentsFailed ==
    /\ Len(tasks) >= 1
    /\ \A t \in SeqToSet(tasks) : t \in DoneTasks
    /\ Responded = 0

\* C7: when every stage-1 invocation of a non-empty selection fails and the
\* run is not cancelled, the finished run has sent stage1_complete with an
\* empty list and stage2_start, has sent no error event in stage 1, and has
\* called ranking collection with an empty stage-1 input.
C7_AllFailProceeds ==
    (pc = "done" /\ AllAgentsFailed /\ ~HasEvent("cancelled")) =>
        /\ Stage1CompleteEvent(<<>>) \in SeqToSet(events)
        /\ HasEvent("stage2_start")
        /\ \E i \in 1..Len(calls) :
             calls[i] = [fn |-> "stage2_collect_rankings", stage1 |-> <<>>]

\* C8: a run that sent an error event sent exactly one and has stored
\* nothing: no user message, no title, no assistant message.
C8_ErrorPersistsNothing ==
    HasEvent("error") =>
        /\ CountEvents("error") = 1
        /\ user_msgs = 0
        /\ ~title_saved
        /\ asst_msgs = 0

\* C9: once stage2_start has been sent, every stage-1 task the run launched
\* (one per selected agent) has finished and stage1_complete has been sent.
C9_Stage1Drained ==
    HasEvent("stage2_start") =>
        /\ Len(tasks) = Len(agents_to_use)
        /\ \A t \in SeqToSet(tasks) : t \in DoneTasks
        /\ HasEvent("stage1_complete")

\* Stage 2 has started in a run over at least two agents.
C9_Witness ==
    /\ Len(tasks) >= 2
    /\ HasEvent("stage2_start")

\* C10: when the run has just sent cancelled during stage 1 (tasks exist,
\* stage1_complete not sent), every stage-1 task is finished or has had
\* task.cancel() called on it, and nothing follows the cancelled event.
C10_Stage1CancelStopsTasks ==
    (/\ pc \in {"finally", "done"}
     /\ Len(tasks) >= 1
     /\ LastEventIs("cancelled")
     /\ ~HasEvent("stage1_complete")) =>
        \A t \in SeqToSet(tasks) : t \in DoneTasks \/ t \in cancel_called

\* C11: in every finished state of the generator (after complete, cancelled
\* or error) the disconnect checker is no longer running, and from then on
\* it makes no probe that sets the flag: cancelled, the number of set() calls
\* and the checker's state stay as they are.
C11_MonitorStopped ==
    /\ [](pc = "done" => monitor \in {"exited", "cancelled"})
    /\ [][pc = "done" => UNCHANGED <<cancelled, set_calls, monitor>>]_vars

\* A finished run whose checker was stopped by the finally block while the
\* client is gone: a further probe would have set the flag.
C11_Witness ==
    /\ pc = "done"
    /\ monitor = "cancelled"
    /\ disconnected
    /\ ~cancelled

\* C12: the flag is unset initially, is set exactly when set() has been called,
\* set() is called at most once per run, only a step of the running checker
\* changes the flag (and the checker exits in that step), and once set the
\* flag stays set.
C12_FlagMonotonic ==
    /\ [](set_calls <= 1 /\ (cancelled <=> set_calls = 1))
    /\ ~cancelled
    /\ [][cancelled => cancelled']_vars
    /\ [][(cancelled' # cancelled \/ set_calls' # set_calls) =>
             (monitor = "running" /\ monitor' = "exited" /\ UNCHANGED pc)]_vars

\* The flag is set, the checker has exited, and the client is still gone
\* while the generator runs on.
C12_Witness ==
    /\ cancelled
    /\ monitor = "exited"
    /\ disconnected
    /\ pc = "stage3_await"

IsResponse(r) == r.outcome = "ok"

\* The agents whose invocation returned a response, in completion order.
RespondedAgents ==
    LET ok == SelectSeq(doneq, IsResponse)
    IN [i \in 1..Len(ok) |-> agents_to_use[ok[i].task]]

\* C14: the list carried by stage1_complete has one entry per agent whose
\* invocation returned a response, in completion order, and none for the
\* others; and every later stage call of the run (ranking collection,
\* chairman synthesis, add_assistant_message) receives that same list.
C14_ResultsPerSuccess ==
    \A i \in 1..Len(events) :
        events[i].type = "stage1_complete" =>
            /\ events[i].data = RespondedAgents
            /\ \A j \in 1..Len(calls) : calls[j].stage1 = events[i].data

\* The step sends an event of type t.
Sends(t) ==
    /\ Len(events') = Len(events) + 1
    /\ events'[Len(events')].type = t

\* C15: every stage1_progress comes after stage1_start; the step that sends
\* stage1_complete is taken with the flag unset, after all len(tasks) items of
\* as_completed were consumed and all stage-1 tasks finished; and when the
\* flag is set at the check after the loop, that step sends cancelled, not
\* stage1_complete.
C15_Stage1CompleteGuard ==
    /\ [](\A i \in 1..Len(events) :
            events[i].type = "stage1_progress" =>
               \E j \in 1..(i - 1) : events[j].type = "stage1_start")
    /\ [][Sends("stage1_complete") =>
             /\ ~cancelled
             /\ iter = Len(tasks)
             /\ Len(tasks) = Len(agents_to_use)
             /\ \A t \in SeqToSet(tasks) : t \in DoneTasks]_vars
    /\ [][(pc = "stage1_post" /\ pc' # pc /\ cancelled) =>
             (Sends("cancelled") /\ pc' = "finally")]_vars

\* stage1_complete was just sent for two or more agents, with the client
\* already gone but the flag not yet set.
C15_Witness ==
    /\ pc = "stage2_start"
    /\ Len(tasks) >= 2
    /\ LastEventIs("stage1_complete")
    /\ disconnected
    /\ ~cancelled

\* C16: once a cancelled event has been sent, no further event is sent, no
\* stage-1 invocation is created, no ranking collection or chairman synthesis
\* is called, no title task is started and storage is not written.
C16_CancelledAbandons ==
    [][HasEvent("cancelled") =>
          /\ UNCHANGED <<events, tasks, calls, storeVars>>
          /\ (title_task' = "running" => title_task = "running")]_vars

\* A finished run that was cancelled inside the stage-1 loop with
\* invocations still pending.
C16_Witness ==
    /\ pc = "done"
    /\ LastEventIs("cancelled")
    /\ cancelled
    /\ Len(tasks) >= 2
    /\ iter < Len(tasks)
    /\ cancel_called # {}

\* Number of add_assistant_message calls of the run.
AssistantCalls ==
    Cardinality({i \in 1..Len(calls) : calls[i].fn = "add_assistant_message"})

\* C17: the title task exists only for a first message; the title is stored
\* and title_complete sent only for a first message, after stage3_complete and
\* with the title task finished; add_assistant_message runs at most once, only
\* after stage3_complete and, for a first message, after title_complete; and
\* complete has been sent exactly when add_assistant_message has succeeded.
C17_Stage3ToDone ==
    /\ title_task # "none" => is_first_message
    /\ title_saved <=> HasEvent("title_complete")
    /\ HasEvent("title_complete") =>
          /\ is_first_message
          /\ title_task = "ok"
          /\ HasEvent("stage3_complete")
          /\ CountEvents("title_complete") = 1
    /\ asst_msgs <= 1
    /\ AssistantCalls = asst_msgs
    /\ asst_msgs = 1 =>
          /\ HasEvent("stage3_complete")
          /\ is_first_message => HasEvent("title_complete")
    /\ HasEvent("complete") <=> asst_msgs = 1
    /\ pc = "persist" => asst_msgs = 0 /\ LastEventIs(IF is_first_message
                                                        THEN "title_complete"
                                                        ELSE "stage3_complete")

\* A finished first-message run: title stored, then the assistant message,
\* then complete.
C17_Witness ==
    /\ pc = "done"
    /\ is_first_message
    /\ title_saved
    /\ asst_msgs = 1
    /\ LastEventIs("complete")

\* cancelled.set() ran while stage 1 was running: the last event sent at that
\* moment was stage1_start or a stage1_progress.
FlagSetInStage1 ==
    /\ flag_ev >= 1
    /\ events[flag_ev].type \in {"stage1_start", "stage1_progress"}

\* C18: if the flag was set while stage 1 was running, stage1_complete is
\* never sent and at most one stage1_progress is sent after the flag was set.
C18_CancelLatency ==
    FlagSetInStage1 =>
        /\ ~HasEvent("stage1_complete")
        /\ Cardinality({i \in (flag_ev + 1)..Len(events) :
                          events[i].type = "stage1_progress"}) <= 1

\* The flag was set during stage 1, one or more completions were consumed,
\* and the loop then ended the run with cancelled, invocations still pending.
C18_Witness ==
    /\ FlagSetInStage1
    /\ pc = "done"
    /\ iter >= 1
    /\ iter < Len(tasks)
    /\ LastEventIs("cancelled")

\* Every run finishes, with one terminal event and the checker stopped.
C19_Terminates ==
    <>[](pc = "done" /\ Cardinality(TerminalIdx) = 1 /\ monitor # "running")

\* C19: a finished run has one terminal event and a stopped checker, and if
\* the flag was set during stage 1 its terminal event is cancelled.
C19_FlagInStage1EndsCancelled ==
    pc = "done" =>
        /\ Cardinality(TerminalIdx) = 1
        /\ monitor # "running"
        /\ FlagSetInStage1 => LastEventIs("cancelled")

====
